---- MODULE Spec2Model ----
(***************************************************************************)
(* Model of the logical_expr crate: evaluate(expression, context) parses   *)
(* the expression text with ordered-choice parser combinators, binds the   *)
(* identifiers of the tree against the context and evaluates the bound     *)
(* tree.  Text is a sequence of one-character strings, so that the         *)
(* character-level behaviour of the parsers (tag prefixes, digit runs,     *)
(* identifier runs, whitespace) is what the model computes.                *)
(***************************************************************************)
EXTENDS Integers, Sequences, FiniteSets, TLC

\* input, context: the two arguments of evaluate.  pc: the step of evaluate
\* that runs next.  expr: the tree in hand.  result: what evaluate returned.
\* given: how the input text was put together; no step of evaluate reads it.
VARIABLES input, context, pc, expr, result, given

vars == <<input, context, pc, expr, result, given>>

(***************************************************************************)
(* Bounds of the model.                                                    *)
(***************************************************************************)
\* Longest token sequence of the boolean input family.
MaxTokens == 5
\* Longest run of blanks put between two tokens of a generated input.
MaxSpaces == 1
\* Largest small integer used as a literal operand or a context value.
MaxInt == 2
\* Longest chain of comparisons of the chain family.
MaxChain == 3

(***************************************************************************)
(* Characters.                                                             *)
(***************************************************************************)
Digits == {"0", "1", "2", "3", "4", "5", "6", "7", "8", "9"}

Letters ==
  {"a", "b", "c", "d", "e", "f", "g", "h", "i", "j", "k", "l", "m",
   "n", "o", "p", "q", "r", "s", "t", "u", "v", "w", "x", "y", "z",
   "A", "B", "C", "D", "E", "F", "G", "H", "I", "J", "K", "L", "M",
   "N", "O", "P", "Q", "R", "S", "T", "U", "V", "W", "X", "Y", "Z"}

\* char::is_whitespace as used by multispace0: space, tab, CR, LF.
Blanks == {" ", "\t", "\r", "\n"}

DigitVal(c) ==
  CASE c = "0" -> 0 [] c = "1" -> 1 [] c = "2" -> 2 [] c = "3" -> 3
    [] c = "4" -> 4 [] c = "5" -> 5 [] c = "6" -> 6 [] c = "7" -> 7
    [] c = "8" -> 8 [] c = "9" -> 9

Drop(s, n) == SubSeq(s, n + 1, Len(s))

Take(s, n) == SubSeq(s, 1, n)

(***************************************************************************)
(* Parser results (nom's IResult, plus the abort of a failed unwrap).      *)
(***************************************************************************)
POk(v, rest) == [st |-> "Ok", val |-> v, rest |-> rest]

PErr == [st |-> "Err"]

PPanic == [st |-> "Panic"]

\* alt((p, q)): q is tried only when p fails with a recoverable error.
Alt(r1, r2) == IF r1.st = "Err" THEN r2 ELSE r1

\* Length of the longest prefix of s whose characters are all in set cs.
RECURSIVE RunLen(_, _)
RunLen(s, cs) ==
  IF s # <<>> /\ Head(s) \in cs THEN 1 + RunLen(Tail(s), cs) ELSE 0

\* Length of the longest prefix of s with no character in set cs.
RECURSIVE RunLenNot(_, _)
RunLenNot(s, cs) ==
  IF s # <<>> /\ Head(s) \notin cs THEN 1 + RunLenNot(Tail(s), cs) ELSE 0

\* tag(t): the input starts with the characters of t.
tag(t, s) ==
  IF Len(s) >= Len(t) /\ Take(s, Len(t)) = t
  THEN POk(t, Drop(s, Len(t)))
  ELSE PErr

\* multispace0 never fails: it returns what follows the leading blanks.
multispace0(s) == Drop(s, RunLen(s, Blanks))

(***************************************************************************)
(* Numbers.  An i64 is kept as sign and magnitude, the magnitude a digit   *)
(* sequence without leading zeros, so that the 64-bit range is the real    *)
(* one.  A float is sign, integer digits and fraction digits (trailing     *)
(* zeros dropped), or NaN; decimal literals of the few digits used here    *)
(* denote distinct f64 values.                                             *)
(***************************************************************************)
I64MaxDigits ==
  <<"9", "2", "2", "3", "3", "7", "2", "0", "3", "6",
    "8", "5", "4", "7", "7", "5", "8", "0", "7">>

RECURSIVE StripLeadingZeros(_)
StripLeadingZeros(ds) ==
  IF Len(ds) > 1 /\ Head(ds) = "0" THEN StripLeadingZeros(Tail(ds)) ELSE ds

RECURSIVE StripTrailingZeros(_)
StripTrailingZeros(ds) ==
  IF ds # <<>> /\ ds[Len(ds)] = "0"
  THEN StripTrailingZeros(Take(ds, Len(ds) - 1))
  ELSE ds

\* -1, 0, 1: order of two digit sequences of the same length.
RECURSIVE LexCmp(_, _)
LexCmp(x, y) ==
  IF x = <<>> \/ y = <<>>
  THEN (IF x = <<>> /\ y = <<>> THEN 0 ELSE IF x = <<>> THEN -1 ELSE 1)
  ELSE IF DigitVal(Head(x)) < DigitVal(Head(y)) THEN -1
  ELSE IF DigitVal(Head(x)) > DigitVal(Head(y)) THEN 1
  ELSE LexCmp(Tail(x), Tail(y))

\* Order of two magnitudes (no leading zeros).
MagCmp(x, y) ==
  IF Len(x) < Len(y) THEN -1
  ELSE IF Len(x) > Len(y) THEN 1
  ELSE LexCmp(x, y)

I64(neg, mag) == [neg |-> neg, mag |-> mag]

\* Ordering of i64 values.
I64Cmp(x, y) ==
  IF x.neg /\ ~y.neg THEN -1
  ELSE IF ~x.neg /\ y.neg THEN 1
  ELSE IF x.neg THEN MagCmp(y.mag, x.mag)
  ELSE MagCmp(x.mag, y.mag)

\* str::parse::<i64>() of a non-empty digit run: Err on overflow.
ParseI64(ds) ==
  LET mag == StripLeadingZeros(ds)
  IN IF MagCmp(mag, I64MaxDigits) = 1
     THEN [ok |-> FALSE]
     ELSE [ok |-> TRUE, val |-> I64(FALSE, mag)]

F64(neg, ip, fp) == [nan |-> FALSE, neg |-> neg, ip |-> ip, fp |-> fp]

F64NaN == [nan |-> TRUE, neg |-> FALSE, ip |-> <<"0">>, fp |-> <<>>]

\* format!("{}.{}", int, frac).parse::<f64>() never fails on digit runs.
ParseF64(int, frac) ==
  F64(FALSE, StripLeadingZeros(int), StripTrailingZeros(frac))

IsZeroF(x) == x.ip = <<"0">> /\ x.fp = <<>>

\* Order of two non-negative decimals.
DecCmp(x, y) ==
  IF MagCmp(x.ip, y.ip) # 0 THEN MagCmp(x.ip, y.ip) ELSE LexCmp(x.fp, y.fp)

\* PartialOrd of f64 without NaN: -0.0 and 0.0 are equal.
F64Cmp(x, y) ==
  IF IsZeroF(x) /\ IsZeroF(y) THEN 0
  ELSE IF x.neg /\ ~y.neg THEN -1
  ELSE IF ~x.neg /\ y.neg THEN 1
  ELSE IF x.neg THEN DecCmp(y, x)
  ELSE DecCmp(x, y)

(***************************************************************************)
(* Value layer (value.rs).                                                 *)
(***************************************************************************)
Identifier(name) == [tag |-> "Identifier", name |-> name]

StringLiteral(s) == [tag |-> "StringLiteral", s |-> s]

IntegerLiteral(i) == [tag |-> "IntegerLiteral", i |-> i]

FloatLiteral(f) == [tag |-> "FloatLiteral", f |-> f]

Boolean(b) == [tag |-> "Boolean", b |-> b]

KwTrue == <<"t", "r", "u", "e">>

KwFalse == <<"f", "a", "l", "s", "e">>

IdentChars == Letters \cup {".", "_"}

\* identifier: a run of letters, '.' and '_' that is not exactly true/false.
identifier(s) ==
  LET n == RunLen(s, IdentChars)
  IN IF n = 0 THEN PErr
     ELSE IF Take(s, n) = KwTrue \/ Take(s, n) = KwFalse THEN PErr
     ELSE POk(Identifier(Take(s, n)), Drop(s, n))

\* integer: a digit run parsed with parse::<i64>().unwrap(), else identifier.
integer(s) ==
  LET n == RunLen(s, Digits)
  IN IF n = 0 THEN identifier(s)
     ELSE LET p == ParseI64(Take(s, n))
          IN IF p.ok THEN POk(IntegerLiteral(p.val), Drop(s, n)) ELSE PPanic

\* Mutant: a text that is no float literal is read as an integer literal.
float_FallsBackToInteger(s) ==
  LET n == RunLen(s, Digits)
      a == Drop(s, n)
      m == IF a # <<>> /\ Head(a) = "." THEN RunLen(Tail(a), Digits) ELSE 0
  IN IF n > 0 /\ m > 0
     THEN POk(FloatLiteral(ParseF64(Take(s, n), Take(Tail(a), m))),
              Drop(Tail(a), m))
     ELSE integer(s)

\* float: digits '.' digits, else identifier (from the start of the input).
float(s) ==
  LET n == RunLen(s, Digits)
      a == Drop(s, n)
      m == IF a # <<>> /\ Head(a) = "." THEN RunLen(Tail(a), Digits) ELSE 0
  IN IF n > 0 /\ m > 0
     THEN POk(FloatLiteral(ParseF64(Take(s, n), Take(Tail(a), m))),
              Drop(Tail(a), m))
     ELSE identifier(s)

\* string: one or more non-quote characters between single quotes.
string(s) ==
  LET t == IF s # <<>> THEN Tail(s) ELSE <<>>
      n == RunLenNot(t, {"'"})
  IN IF s # <<>> /\ Head(s) = "'" /\ n > 0 /\ Len(t) > n
     THEN POk(StringLiteral(Take(t, n)), Drop(t, n + 1))
     ELSE identifier(s)

\* boolean: the tag true or the tag false (a prefix match), else identifier.
boolean(s) ==
  Alt(Alt(IF tag(KwTrue, s).st = "Ok"
          THEN POk(Boolean(TRUE), tag(KwTrue, s).rest) ELSE PErr,
          IF tag(KwFalse, s).st = "Ok"
          THEN POk(Boolean(FALSE), tag(KwFalse, s).rest) ELSE PErr),
      identifier(s))

\* From<&ContextValue> for Value: the kind and the payload are kept.
FromContextValue(cv) ==
  CASE cv.tag = "String" -> StringLiteral(cv.s)
    [] cv.tag = "Integer" -> IntegerLiteral(cv.i)
    [] cv.tag = "Float" -> FloatLiteral(cv.f)
    [] cv.tag = "Boolean" -> Boolean(cv.b)

ROk(v) == [tag |-> "Ok", val |-> v]

RErr(msg, arg) == [tag |-> "Err", msg |-> msg, arg |-> arg]

RPanic == [tag |-> "Panic"]

\* Mutant: a name the context does not have is bound to false.
IdentifierUseContext_AbsentIsFalse(name, ctx) ==
  IF name \in DOMAIN ctx
  THEN ROk(FromContextValue(ctx[name]))
  ELSE ROk(Boolean(FALSE))

\* Identifier::use_context
IdentifierUseContext(name, ctx) ==
  IF name \in DOMAIN ctx
  THEN ROk(FromContextValue(ctx[name]))
  ELSE RErr("Identifier not found in context", name)

\* Value::use_context
ValueUseContext(v, ctx) ==
  IF v.tag = "Identifier" THEN IdentifierUseContext(v.name, ctx) ELSE ROk(v)

(***************************************************************************)
(* Operator tables (operator.rs).                                          *)
(***************************************************************************)
\* BinaryOperator::try_from
BinaryOperatorTryFrom(t) ==
  CASE t = <<"=", "=">> -> "Equals"
    [] t = <<"!", "=">> -> "NotEquals"
    [] t = <<"<">> -> "LessThan"
    [] t = <<">">> -> "GreaterThan"
    [] t = <<"<", "=">> -> "LessEqual"
    [] t = <<">", "=">> -> "GreaterEqual"
    [] t = <<"&", "&">> -> "And"
    [] t = <<"|", "|">> -> "Or"
    [] t = <<"=", "~">> -> "RegexMatch"

\* The first tag of the list ts that the input starts with.
RECURSIVE AltTags(_, _)
AltTags(ts, s) ==
  IF ts = <<>> THEN PErr
  ELSE IF tag(Head(ts), s).st = "Ok"
  THEN POk(BinaryOperatorTryFrom(Head(ts)), tag(Head(ts), s).rest)
  ELSE AltTags(Tail(ts), s)

\* The tags of binary_operator_number, in the order alt tries them.
NumberOperatorTags ==
  << <<"=", "=">>, <<"!", "=">>, <<"<">>, <<">">>, <<"<", "=">>, <<">", "=">> >>

binary_operator_number(s) == AltTags(NumberOperatorTags, s)

\* The tags of binary_operator_string, in the order alt tries them.
StringOperatorTags == << <<"=", "=">>, <<"!", "=">>, <<"=", "~">> >>

binary_operator_string(s) == AltTags(StringOperatorTags, s)

binary_and_operator(s) == AltTags(<< <<"&", "&">> >>, s)

binary_or_operator(s) == AltTags(<< <<"|", "|">> >>, s)

unary_operator_primary(s) ==
  IF tag(<<"!">>, s).st = "Ok" THEN POk("Not", tag(<<"!">>, s).rest) ELSE PErr

(***************************************************************************)
(* Regular expressions (the regex crate, as eval_string uses it).  The     *)
(* patterns of the inputs are built from literal characters, '.', '^',     *)
(* '$' and the postfix repetitions '+', '*', '?'.                          *)
(***************************************************************************)
RegexReps == {"+", "*", "?"}

\* One pattern item per atom; a repetition with no atom before it is an error.
RECURSIVE RegexItems(_)
RegexItems(p) ==
  IF p = <<>> THEN [ok |-> TRUE, items |-> <<>>]
  ELSE IF Head(p) \in RegexReps THEN [ok |-> FALSE, items |-> <<>>]
  ELSE LET kind == CASE Head(p) = "^" -> "bol"
                     [] Head(p) = "$" -> "eol"
                     [] Head(p) = "." -> "any"
                     [] OTHER -> "lit"
           rep == IF Len(p) > 1 /\ p[2] \in RegexReps /\ kind \in {"any", "lit"}
                  THEN p[2] ELSE "1"
           more == RegexItems(Drop(p, IF rep = "1" THEN 1 ELSE 2))
       IN IF more.ok
          THEN [ok |-> TRUE,
                items |-> <<[kind |-> kind, c |-> Head(p), rep |-> rep]>>
                            \o more.items]
          ELSE more

\* Regex::new
RegexNew(p) == RegexItems(p)

AtomMatches(item, c) ==
  IF item.kind = "any" THEN c # "\n" ELSE item.c = c

\* The items match a prefix of the text starting at position pos.
RECURSIVE MatchHere(_, _, _)
RECURSIVE MatchStar(_, _, _, _)
MatchHere(items, text, pos) ==
  IF items = <<>> THEN TRUE
  ELSE LET it == Head(items)
           here == pos <= Len(text) /\ AtomMatches(it, text[pos])
       IN CASE it.kind = "bol" -> pos = 1 /\ MatchHere(Tail(items), text, pos)
            [] it.kind = "eol" ->
                 pos = Len(text) + 1 /\ MatchHere(Tail(items), text, pos)
            [] OTHER ->
                 CASE it.rep = "1" ->
                        here /\ MatchHere(Tail(items), text, pos + 1)
                   [] it.rep = "?" ->
                        \/ here /\ MatchHere(Tail(items), text, pos + 1)
                        \/ MatchHere(Tail(items), text, pos)
                   [] it.rep = "*" -> MatchStar(it, Tail(items), text, pos)
                   [] it.rep = "+" ->
                        here /\ MatchStar(it, Tail(items), text, pos + 1)

MatchStar(it, rest, text, pos) ==
  \/ MatchHere(rest, text, pos)
  \/ /\ pos <= Len(text)
     /\ AtomMatches(it, text[pos])
     /\ MatchStar(it, rest, text, pos + 1)

\* Mutant: a match is looked for at the start of the text only.
RegexIsMatch_AtStartOnly(items, text) == MatchHere(items, text, 1)

\* Regex::is_match: a match anywhere in the text.
RegexIsMatch(items, text) ==
  \E pos \in 1..(Len(text) + 1) : MatchHere(items, text, pos)

(***************************************************************************)
(* Comparison expression (non_boolean_expression.rs).                      *)
(***************************************************************************)
NonBooleanExpression(lhs, op, rhs) ==
  [tag |-> "NonBooleanExpression", lhs |-> lhs, op |-> op, rhs |-> rhs]

\* The value parser and the operator parser of the comparison alternative
\* kind: integer and float take the number operators, string its own.
Operand(kind, s) ==
  CASE kind = "integer" -> integer(s)
    [] kind = "float" -> float(s)
    [] kind = "string" -> string(s)

Operator(kind, s) ==
  IF kind = "string" THEN binary_operator_string(s)
  ELSE binary_operator_number(s)

\* tuple((V, delimited(multispace0, O, multispace0), V)) of binary_non_bool,
\* one result at a time: first the left value, then the operator, then the
\* right value.
ComparisonRight(first, op, second) ==
  IF second.st # "Ok" THEN second
  ELSE POk(NonBooleanExpression(first.val, op.val, second.val), second.rest)

ComparisonOperator(kind, first, op) ==
  IF op.st # "Ok" THEN op
  ELSE ComparisonRight(first, op, Operand(kind, multispace0(op.rest)))

ComparisonLeft(kind, first) ==
  IF first.st # "Ok" THEN first
  ELSE ComparisonOperator(kind, first, Operator(kind, multispace0(first.rest)))

ComparisonTuple(kind, s) == ComparisonLeft(kind, Operand(kind, s))

\* binary_non_bool: integer pair, then float pair, then string pair.
binary_non_bool(s) ==
  Alt(Alt(ComparisonTuple("integer", s), ComparisonTuple("float", s)),
      ComparisonTuple("string", s))

eval_string(nbe) ==
  IF nbe.lhs.tag = "StringLiteral" /\ nbe.rhs.tag = "StringLiteral"
  THEN CASE nbe.op = "Equals" -> ROk(nbe.lhs.s = nbe.rhs.s)
         [] nbe.op = "NotEquals" -> ROk(nbe.lhs.s # nbe.rhs.s)
         [] nbe.op = "RegexMatch" ->
              IF RegexNew(nbe.rhs.s).ok
              THEN ROk(RegexIsMatch(RegexNew(nbe.rhs.s).items, nbe.lhs.s))
              ELSE RErr("Invalid regex", nbe.rhs.s)
         [] OTHER -> RErr("Invalid binary operator for string", <<>>)
  ELSE RErr("Not a Binary String expression", <<>>)

eval_integer(nbe) ==
  IF nbe.lhs.tag = "IntegerLiteral" /\ nbe.rhs.tag = "IntegerLiteral"
  THEN LET c == I64Cmp(nbe.lhs.i, nbe.rhs.i)
       IN CASE nbe.op = "Equals" -> ROk(c = 0)
            [] nbe.op = "NotEquals" -> ROk(c # 0)
            [] nbe.op = "LessThan" -> ROk(c < 0)
            [] nbe.op = "GreaterThan" -> ROk(c > 0)
            [] nbe.op = "LessEqual" -> ROk(c <= 0)
            [] nbe.op = "GreaterEqual" -> ROk(c >= 0)
            [] OTHER -> RErr("Invalid binary operator for number", <<>>)
  ELSE RErr("Not a Binary Integer expression", <<>>)

\* f64 comparison: every ordered comparison with a NaN is false, != is true.
eval_float(nbe) ==
  IF nbe.lhs.tag = "FloatLiteral" /\ nbe.rhs.tag = "FloatLiteral"
  THEN LET nan == nbe.lhs.f.nan \/ nbe.rhs.f.nan
           c == IF nan THEN 0 ELSE F64Cmp(nbe.lhs.f, nbe.rhs.f)
       IN CASE nbe.op = "Equals" -> ROk(~nan /\ c = 0)
            [] nbe.op = "NotEquals" -> ROk(nan \/ c # 0)
            [] nbe.op = "LessThan" -> ROk(~nan /\ c < 0)
            [] nbe.op = "GreaterThan" -> ROk(~nan /\ c > 0)
            [] nbe.op = "LessEqual" -> ROk(~nan /\ c <= 0)
            [] nbe.op = "GreaterEqual" -> ROk(~nan /\ c >= 0)
            [] OTHER -> RErr("Invalid binary operator for number", <<>>)
  ELSE RErr("Not a Binary Integer expression", <<>>)

\* Mutant: every comparison is evaluated as a comparison of integers.
NonBooleanEvaluate_AlwaysInteger(nbe) == eval_integer(nbe)

\* NonBooleanExpression::evaluate: dispatch on the kind of the left operand.
NonBooleanEvaluate(nbe) ==
  IF nbe.lhs.tag = "StringLiteral" THEN eval_string(nbe)
  ELSE IF nbe.lhs.tag = "IntegerLiteral" THEN eval_integer(nbe)
  ELSE eval_float(nbe)

\* NonBooleanExpression::use_context: left operand first, then right.
NonBooleanUseContext(nbe, ctx) ==
  LET l == ValueUseContext(nbe.lhs, ctx)
  IN IF l.tag # "Ok" THEN l
     ELSE LET r == ValueUseContext(nbe.rhs, ctx)
          IN IF r.tag # "Ok" THEN r
             ELSE ROk(NonBooleanExpression(l.val, nbe.op, r.val))

(***************************************************************************)
(* Boolean expression: tree, parser, binding, evaluation (expression.rs).  *)
(***************************************************************************)
BoolIdentifier(name) == [tag |-> "Identifier", name |-> name]

BoolBoolean(b) == [tag |-> "Boolean", b |-> b]

BoolNonBoolean(nbe) == [tag |-> "NonBoolean", nbe |-> nbe]

Binary(lhs, op, rhs) == [tag |-> "Binary", lhs |-> lhs, op |-> op, rhs |-> rhs]

Unary(op, rhs) == [tag |-> "Unary", op |-> op, rhs |-> rhs]

RECURSIVE boolean_value(_)
RECURSIVE boolean_expression(_)
RECURSIVE boolean_and(_)
RECURSIVE boolean_or(_)

\* delimited(('(', multispace0), boolean_expression, (multispace0, ')')):
\* after the inner expression r, blanks and the closing parenthesis.
CloseParenthesis(r) ==
  IF r.st # "Ok" THEN r
  ELSE IF multispace0(r.rest) # <<>> /\ Head(multispace0(r.rest)) = ")"
  THEN POk(r.val, Tail(multispace0(r.rest)))
  ELSE PErr

Parenthesized(s) ==
  IF s = <<>> \/ Head(s) # "("
  THEN PErr
  ELSE CloseParenthesis(boolean_expression(multispace0(Tail(s))))

\* map_res(boolean, ..): a Boolean or an Identifier in a boolean position.
InBooleanPosition(r) ==
  IF r.st # "Ok" THEN r
  ELSE IF r.val.tag = "Boolean" THEN POk(BoolBoolean(r.val.b), r.rest)
  ELSE IF r.val.tag = "Identifier" THEN POk(BoolIdentifier(r.val.name), r.rest)
  ELSE PErr

BoolLiteralOrIdentifier(s) == InBooleanPosition(boolean(s))

\* tuple((unary_operator_primary, multispace0, boolean_value))
NegationOf(o, r) ==
  IF r.st # "Ok" THEN r ELSE POk(Unary(o.val, r.val), r.rest)

NegationOperator(o) ==
  IF o.st # "Ok" THEN o ELSE NegationOf(o, boolean_value(multispace0(o.rest)))

Negation(s) == NegationOperator(unary_operator_primary(s))

\* map(binary_non_bool, ..)
AsComparison(r) ==
  IF r.st # "Ok" THEN r ELSE POk(BoolNonBoolean(r.val), r.rest)

Comparison(s) == AsComparison(binary_non_bool(s))

boolean_value(s) ==
  Alt(Alt(Alt(Comparison(s), Parenthesized(s)), BoolLiteralOrIdentifier(s)),
      Negation(s))

\* tuple((boolean_value, multispace0, O, multispace0, R)) of a chain, one
\* result at a time.  kind says which operator O is; again says whether R
\* is the chain itself or boolean_value.
ChainRight(l, o, r) ==
  IF r.st # "Ok" THEN r ELSE POk(Binary(l.val, o.val, r.val), r.rest)

ChainRest(kind, again, s) ==
  IF ~again THEN boolean_value(s)
  ELSE IF kind = "And" THEN boolean_and(s)
  ELSE boolean_or(s)

ChainOperator(kind, again, l, o) ==
  IF o.st # "Ok" THEN o
  ELSE ChainRight(l, o, ChainRest(kind, again, multispace0(o.rest)))

ChainLeft(kind, again, l) ==
  IF l.st # "Ok" THEN l
  ELSE ChainOperator(kind, again, l,
                     IF kind = "And"
                     THEN binary_and_operator(multispace0(l.rest))
                     ELSE binary_or_operator(multispace0(l.rest)))

ChainTuple(kind, again, s) == ChainLeft(kind, again, boolean_value(s))

boolean_and(s) == Alt(ChainTuple("And", TRUE, s), ChainTuple("And", FALSE, s))

boolean_or(s) == Alt(ChainTuple("Or", TRUE, s), ChainTuple("Or", FALSE, s))

boolean_expression(s) ==
  Alt(Alt(boolean_and(s), boolean_or(s)), boolean_value(s))

\* Mutant: what follows a parsed prefix is not looked at.
WholeInput_IgnoresRemainder(r) ==
  IF r.st = "Panic" THEN RPanic
  ELSE IF r.st = "Err" THEN RErr("Parse error", <<>>)
  ELSE ROk(r.val)

\* The match of parse_whole_boolean_expression on the parser's result r:
\* the whole input must have been consumed.
WholeInput(r) ==
  IF r.st = "Panic" THEN RPanic
  ELSE IF r.st = "Err" THEN RErr("Parse error", <<>>)
  ELSE IF r.rest = <<>> THEN ROk(r.val)
  ELSE RErr("Expected end of input", r.rest)

parse_whole_boolean_expression(s) == WholeInput(boolean_expression(s))

\* BooleanExpression::use_context
RECURSIVE use_context(_, _)
use_context(e, ctx) ==
  CASE e.tag = "Identifier" ->
         LET v == IdentifierUseContext(e.name, ctx)
         IN IF v.tag = "Ok" /\ v.val.tag = "Boolean"
            THEN ROk(BoolBoolean(v.val.b))
            ELSE RErr("Value should be a boolean", e.name)
    [] e.tag = "Boolean" -> ROk(e)
    [] e.tag = "NonBoolean" ->
         LET n == NonBooleanUseContext(e.nbe, ctx)
         IN IF n.tag # "Ok" THEN n ELSE ROk(BoolNonBoolean(n.val))
    [] e.tag = "Binary" ->
         LET l == use_context(e.lhs, ctx)
         IN IF l.tag # "Ok" THEN l
            ELSE LET r == use_context(e.rhs, ctx)
                 IN IF r.tag # "Ok" THEN r
                    ELSE ROk(Binary(l.val, e.op, r.val))
    [] e.tag = "Unary" ->
         LET r == use_context(e.rhs, ctx)
         IN IF r.tag # "Ok" THEN r ELSE ROk(Unary(e.op, r.val))

RECURSIVE evaluate_tree(_)

\* lhs.evaluate()? && rhs.evaluate()?  and  lhs.evaluate()? || rhs.evaluate()?
evaluate_binary(lhs, op, rhs) ==
  CASE op = "And" ->
         LET l == evaluate_tree(lhs)
         IN IF l.tag # "Ok" THEN l
            ELSE IF ~l.val THEN ROk(FALSE)
            ELSE evaluate_tree(rhs)
    [] op = "Or" ->
         LET l == evaluate_tree(lhs)
         IN IF l.tag # "Ok" THEN l
            ELSE IF l.val THEN ROk(TRUE)
            ELSE evaluate_tree(rhs)
    [] OTHER -> RErr("Invalid binary operator for boolean", <<>>)

\* Mutant: the operand's value is returned without negating it.
evaluate_unary_NoNegation(op, rhs) == evaluate_tree(rhs)

evaluate_unary(op, rhs) ==
  LET r == evaluate_tree(rhs)
  IN IF r.tag # "Ok" THEN r ELSE ROk(~r.val)

\* BooleanExpression::evaluate
evaluate_tree(e) ==
  CASE e.tag = "Boolean" -> ROk(e.b)
    [] e.tag = "Identifier" ->
         RErr("Context should be used before evaluation", e.name)
    [] e.tag = "NonBoolean" -> NonBooleanEvaluate(e.nbe)
    [] e.tag = "Binary" -> evaluate_binary(e.lhs, e.op, e.rhs)
    [] e.tag = "Unary" -> evaluate_unary(e.op, e.rhs)

\* evaluate(expression, context) of lib.rs as one function.
EvaluateBound(b) == IF b.tag # "Ok" THEN b ELSE evaluate_tree(b.val)

EvaluateParsed(p, ctx) ==
  IF p.tag # "Ok" THEN p ELSE EvaluateBound(use_context(p.val, ctx))

evaluate(s, ctx) == EvaluateParsed(parse_whole_boolean_expression(s), ctx)

(***************************************************************************)
(* evaluate(expression, context) of lib.rs, one action per step.           *)
(***************************************************************************)
None == [tag |-> "None"]

\* BooleanExpression::try_from(expression)?
TryFrom ==
  /\ pc = "start"
  /\ \E r \in {parse_whole_boolean_expression(input)} :
       /\ expr' = IF r.tag = "Ok" THEN r.val ELSE None
       /\ result' = IF r.tag = "Ok" THEN None ELSE r
       /\ pc' = CASE r.tag = "Ok" -> "parsed"
                  [] r.tag = "Err" -> "done"
                  [] r.tag = "Panic" -> "aborted"
  /\ UNCHANGED <<input, context, given>>

\* expr.use_context(context)?
UseContext ==
  /\ pc = "parsed"
  /\ \E r \in {use_context(expr, context)} :
       /\ expr' = IF r.tag = "Ok" THEN r.val ELSE expr
       /\ result' = IF r.tag = "Ok" THEN None ELSE r
       /\ pc' = IF r.tag = "Ok" THEN "bound" ELSE "done"
  /\ UNCHANGED <<input, context, given>>

\* expr.evaluate()
Evaluate ==
  /\ pc = "bound"
  /\ result' = evaluate_tree(expr)
  /\ pc' = "done"
  /\ UNCHANGED <<input, context, expr, given>>

Next == TryFrom \/ UseContext \/ Evaluate

(***************************************************************************)
(* Inputs.  Texts are token sequences joined by runs of blanks.            *)
(***************************************************************************)
RECURSIVE Spaces(_)
Spaces(k) == IF k = 0 THEN <<>> ELSE <<" ">> \o Spaces(k - 1)

\* The tokens, k blanks between each two.
RECURSIVE Render(_, _)
Render(toks, k) ==
  IF toks = <<>> THEN <<>>
  ELSE IF Len(toks) = 1 THEN Head(toks)
  ELSE Head(toks) \o Spaces(k) \o Render(Tail(toks), k)

TokAnd == <<"&", "&">>

TokOr == <<"|", "|">>

NameA == <<"a">>

NameB == <<"b">>

EmptyContext == <<>>

CtxBoolean(b) == [tag |-> "Boolean", b |-> b]

CtxString(s) == [tag |-> "String", s |-> s]

CtxInteger(i) == [tag |-> "Integer", i |-> i]

CtxFloat(f) == [tag |-> "Float", f |-> f]

\* A context binding the one name n to the context value cv.
Bind1(n, cv) == [x \in {n} |-> cv]

(***************************************************************************)
(* The boolean family: every expression of at most MaxTokens tokens of     *)
(*   expr  := value (('&&' | '||') value)*                                 *)
(*   value := 'true' | 'false' | 'a' | '!' value | '(' expr ')'            *)
(* with, for each, whether && and || meet in one chain (mixed), whether it *)
(* has no identifier (lit), and its value v[x] in boolean algebra when a   *)
(* is x (meaningful when not mixed).                                       *)
(***************************************************************************)
Atom(tok, lit, v) ==
  [toks |-> <<tok>>, ops |-> {}, mixed |-> FALSE, lit |-> lit, v |-> v]

Atoms ==
  {Atom(KwTrue, TRUE, [x \in BOOLEAN |-> TRUE]),
   Atom(KwFalse, TRUE, [x \in BOOLEAN |-> FALSE]),
   Atom(NameA, FALSE, [x \in BOOLEAN |-> x])}

NotOf(r) ==
  [toks |-> <<<<"!">>>> \o r.toks, ops |-> {}, mixed |-> r.mixed,
   lit |-> r.lit, v |-> [x \in BOOLEAN |-> ~r.v[x]]]

ParenOf(r) ==
  [toks |-> <<<<"(">>>> \o r.toks \o <<<<")">>>>, ops |-> {},
   mixed |-> r.mixed, lit |-> r.lit, v |-> r.v]

JoinOf(l, op, r) ==
  [toks |-> l.toks \o <<op>> \o r.toks,
   ops |-> {op} \cup r.ops,
   mixed |-> l.mixed \/ r.mixed \/ ({op} \cup r.ops = {TokAnd, TokOr}),
   lit |-> l.lit /\ r.lit,
   v |-> [x \in BOOLEAN |-> IF op = TokAnd THEN l.v[x] /\ r.v[x]
                                            ELSE l.v[x] \/ r.v[x]]]

\* Gen[n]: the values and the expressions of exactly n tokens.
Gen[n \in 0..(MaxTokens + 1)] ==
  IF n = 0 THEN [val |-> {}, exp |-> {}]
  ELSE LET val == IF n = 1 THEN Atoms
                  ELSE {NotOf(r) : r \in Gen[n - 1].val}
                       \cup {ParenOf(r) : r \in
                               (IF n >= 3 THEN Gen[n - 2].exp ELSE {})}
           joins == UNION {UNION {{JoinOf(l, op, r) : r \in Gen[n - i - 1].exp}
                                   : l \in Gen[i].val, op \in {TokAnd, TokOr}}
                           : i \in 1..(n - 2)}
       IN [val |-> val, exp |-> val \cup joins]

\* Every expression of at most MaxTokens tokens, and every chain of
\* MaxTokens tokens inside one more pair of parentheses.
BoolFamily ==
  UNION {Gen[n].exp : n \in 1..MaxTokens}
    \cup {ParenOf(r) : r \in {c \in Gen[MaxTokens].exp : c.ops # {}}}

\* The contexts tried for the identifier a.
ContextsA ==
  {EmptyContext, Bind1(NameA, CtxBoolean(TRUE)), Bind1(NameA, CtxBoolean(FALSE)),
   Bind1(NameA, CtxInteger(I64(FALSE, <<"1">>)))}

WsVariant ==
  <<"!", " ", " ", "(", " ", "!", " ", " ", " ", "t", "r", "u", "e", ")",
    " ", " ">>

WsCompact == <<"!", "(", "!", "t", "r", "u", "e", ")">>

InitCommon ==
  /\ pc = "start"
  /\ expr = None
  /\ result = None

InitBool ==
  /\ InitCommon
  /\ \/ \E r \in BoolFamily, k \in 0..MaxSpaces :
          /\ given = [fam |-> "bool", mixed |-> r.mixed, lit |-> r.lit,
                      v |-> r.v, ntok |-> Len(r.toks)]
          /\ input = Render(r.toks, k)
          /\ context \in (IF r.lit THEN {EmptyContext} ELSE ContextsA)
     \/ /\ given = [fam |-> "text"]
        /\ input \in {WsVariant, WsCompact}
        /\ context = EmptyContext

Spec == InitBool /\ [][Next]_vars

(***************************************************************************)
(* The comparison family: lhs op rhs, the operands literals of each kind   *)
(* and the identifiers a and b, the operator any of the nine operator      *)
(* tokens that can stand between two values.  Each literal operand carries *)
(* the context value it denotes (cv) and its kind.                         *)
(***************************************************************************)
DigitChar(n) ==
  CASE n = 0 -> "0" [] n = 1 -> "1" [] n = 2 -> "2" [] n = 3 -> "3"
    [] n = 4 -> "4" [] n = 5 -> "5" [] n = 6 -> "6" [] n = 7 -> "7"
    [] n = 8 -> "8" [] n = 9 -> "9"

SmallI64(n) ==
  IF n < 0 THEN I64(TRUE, <<DigitChar(0 - n)>>) ELSE I64(FALSE, <<DigitChar(n)>>)

IntOperands ==
  {[text |-> <<DigitChar(n)>>, kind |-> "int", cv |-> CtxInteger(SmallI64(n))]
     : n \in 1..MaxInt}

NegOperands ==
  {[text |-> <<"-", "1">>, kind |-> "neg", cv |-> CtxInteger(SmallI64(-1))]}

FloatOperands ==
  {[text |-> <<DigitChar(n), ".", "0">>, kind |-> "float",
    cv |-> CtxFloat(F64(FALSE, <<DigitChar(n)>>, <<>>))] : n \in 1..MaxInt}
    \cup {[text |-> <<"0", ".", "5">>, kind |-> "float",
           cv |-> CtxFloat(F64(FALSE, <<"0">>, <<"5">>))]}

StringOperands ==
  {[text |-> <<"'", c, "'">>, kind |-> "str", cv |-> CtxString(<<c>>)]
     : c \in {"s", "t"}}

BoolOperands ==
  {[text |-> KwTrue, kind |-> "bool", cv |-> CtxBoolean(TRUE)]}

IdentOperands ==
  {[text |-> n, kind |-> "ident", cv |-> None] : n \in {NameA, NameB}}

LiteralOperands ==
  IntOperands \cup NegOperands \cup FloatOperands \cup StringOperands
    \cup BoolOperands

Operands == LiteralOperands \cup IdentOperands

ComparisonTokens ==
  {<<"=", "=">>, <<"!", "=">>, <<"<">>, <<">">>, <<"<", "=">>, <<">", "=">>,
   <<"=", "~">>}

\* The values a context binds an identifier to.
ContextValues ==
  {o.cv : o \in LiteralOperands} \cup {CtxFloat(F64NaN)}

\* The contexts over the names ns: each name unbound or bound to a value.
ContextsOver(ns) ==
  UNION {[bound -> ContextValues] : bound \in SUBSET ns}

NamesOf(l, r) == {o.text : o \in {x \in {l, r} : x.kind = "ident"}}

InitCmp ==
  /\ InitCommon
  /\ \E l \in Operands, op \in ComparisonTokens, r \in Operands,
        k \in 0..MaxSpaces :
       /\ given = [fam |-> "cmp", l |-> l, op |-> op, r |-> r]
       /\ input = Render(<<l.text, op, r.text>>, k)
       /\ context \in ContextsOver(NamesOf(l, r))

SpecCmp == InitCmp /\ [][Next]_vars

(***************************************************************************)
(* The chain family: comparisons over the identifiers foo and length,      *)
(* joined by &&.  Each comparison carries its native result exp[f, n] when *)
(* foo is the string f and length the integer n.                           *)
(***************************************************************************)
NameFoo == <<"f", "o", "o">>

NameLength == <<"l", "e", "n", "g", "t", "h">>

Baaaar == <<"b", "a", "a", "a", "a", "r">>

Xbarx == <<"x", "b", "a", "r", "x">>

Br == <<"b", "r">>

FooValues == {Baaaar, Xbarx, Br}

LengthValues == 1..(MaxInt + 1)

Quoted(t) == <<"'">> \o t \o <<"'">>

\* foo =~ 'ba+r'
CmpRegex ==
  [toks |-> <<NameFoo, <<"=", "~">>, Quoted(<<"b", "a", "+", "r">>)>>,
   exp |-> [f \in FooValues, n \in LengthValues |-> f \in {Baaaar, Xbarx}]]

\* 2 > length
CmpGreater ==
  [toks |-> <<<<"2">>, <<">">>, NameLength>>,
   exp |-> [f \in FooValues, n \in LengthValues |-> 2 > n]]

\* foo =~ '^ba+r$'
CmpAnchored ==
  [toks |-> <<NameFoo, <<"=", "~">>,
              Quoted(<<"^", "b", "a", "+", "r", "$">>)>>,
   exp |-> [f \in FooValues, n \in LengthValues |-> f = Baaaar]]

\* length == 1
CmpEquals ==
  [toks |-> <<NameLength, <<"=", "=">>, <<"1">>>>,
   exp |-> [f \in FooValues, n \in LengthValues |-> n = 1]]

\* foo != 'br'
CmpNotEquals ==
  [toks |-> <<NameFoo, <<"!", "=">>, Quoted(Br)>>,
   exp |-> [f \in FooValues, n \in LengthValues |-> f # Br]]

ChainComparisons ==
  {CmpRegex, CmpGreater, CmpAnchored, CmpEquals, CmpNotEquals}

\* The tokens of the chain cs: its comparisons with && between them.
RECURSIVE ChainTokens(_)
ChainTokens(cs) ==
  IF Len(cs) = 1 THEN cs[1].toks
  ELSE cs[1].toks \o <<TokAnd>> \o ChainTokens(Tail(cs))

ChainContext(f, n) ==
  [x \in {NameFoo, NameLength} |->
     IF x = NameFoo THEN CtxString(f) ELSE CtxInteger(SmallI64(n))]

InitChain ==
  /\ InitCommon
  /\ \E len \in 2..MaxChain :
       \E cs \in [1..len -> ChainComparisons], k \in 0..MaxSpaces,
          f \in FooValues, n \in LengthValues :
         /\ given = [fam |-> "chain",
                     expect |-> \A i \in 1..len : cs[i].exp[f, n]]
         /\ input = Render(ChainTokens(cs), k)
         /\ context = ChainContext(f, n)

SpecChain == InitChain /\ [][Next]_vars

(***************************************************************************)
(* The integer family: comparisons whose operands are digit runs around    *)
(* the ends of the 64-bit range, or the identifier a.                      *)
(***************************************************************************)
\* 9223372036854775808
I64MaxPlusOneDigits ==
  <<"9", "2", "2", "3", "3", "7", "2", "0", "3", "6",
    "8", "5", "4", "7", "7", "5", "8", "0", "8">>

\* 99999999999999999999
TwentyNines == [i \in 1..20 |-> "9"]

DigitRuns ==
  {<<"1">>, <<"0", "0", "1">>, I64MaxDigits, I64MaxPlusOneDigits, TwentyNines}

IntegerContexts ==
  {EmptyContext, Bind1(NameA, CtxInteger(I64(FALSE, I64MaxDigits))),
   Bind1(NameA, CtxInteger(SmallI64(1)))}

InitInt ==
  /\ InitCommon
  /\ \E l \in DigitRuns \cup {NameA}, op \in ComparisonTokens,
        r \in DigitRuns \cup {NameA}, k \in 0..MaxSpaces :
       /\ given = [fam |-> "int", l |-> l, op |-> op, r |-> r]
       /\ input = Render(<<l, op, r>>, k)
       /\ context \in (IF NameA \in {l, r} THEN IntegerContexts
                       ELSE {EmptyContext})

SpecInt == InitInt /\ [][Next]_vars

(***************************************************************************)
(* The join family: lhs && rhs and lhs || rhs, each side true, false, the  *)
(* identifier c in a boolean position, its negation, or a comparison of    *)
(* the identifiers a and b; the context binds each name of the input to a  *)
(* value of any kind, or not at all.                                       *)
(***************************************************************************)
NameC == <<"c">>

JoinLiteral(b) ==
  [toks |-> <<IF b THEN KwTrue ELSE KwFalse>>, kind |-> "lit", names |-> {},
   op |-> <<>>]

JoinIdentifier ==
  [toks |-> <<NameC>>, kind |-> "ident", names |-> {NameC}, op |-> <<>>]

JoinNegation ==
  [toks |-> <<<<"!">>, NameC>>, kind |-> "not", names |-> {NameC}, op |-> <<>>]

JoinComparison(op) ==
  [toks |-> <<NameA, op, NameB>>, kind |-> "cmp", names |-> {NameA, NameB},
   op |-> op]

JoinComparisonTokens == {<<"=", "=">>, <<"<">>, <<"=", "~">>}

JoinSides ==
  {JoinLiteral(TRUE), JoinLiteral(FALSE), JoinIdentifier, JoinNegation}
    \cup {JoinComparison(op) : op \in JoinComparisonTokens}

JoinValues ==
  {CtxString(<<"s">>), CtxInteger(SmallI64(1)), CtxInteger(SmallI64(2)),
   CtxFloat(F64(FALSE, <<"1">>, <<>>)), CtxBoolean(TRUE), CtxBoolean(FALSE)}

JoinContexts(ns) == UNION {[bound -> JoinValues] : bound \in SUBSET ns}

InitJoin ==
  /\ InitCommon
  /\ \E l \in JoinSides, op \in {"And", "Or"}, r \in JoinSides,
        k \in 0..MaxSpaces :
       /\ given = [fam |-> "join", l |-> l, op |-> op, r |-> r]
       /\ input = Render(l.toks \o <<IF op = "And" THEN TokAnd ELSE TokOr>>
                           \o r.toks, k)
       /\ context \in JoinContexts(l.names \cup r.names)

SpecJoin == InitJoin /\ [][Next]_vars

(***************************************************************************)
(* The name family: one identifier, whose text starts with true or false   *)
(* or (untrue) does not, in each boolean position and as an operand of a   *)
(* comparison; the context binds it to a boolean or an integer, or not at  *)
(* all.                                                                    *)
(***************************************************************************)
NameTrueish == <<"t", "r", "u", "e", "i", "s", "h">>

NameFalseFlag == <<"f", "a", "l", "s", "e", "_", "f", "l", "a", "g">>

NameUntrue == <<"u", "n", "t", "r", "u", "e">>

FamilyNames == {NameTrueish, NameFalseFlag, NameUntrue}

BooleanForms == {"bare", "not", "paren", "left", "right"}

OperandForms == {"cmpl", "cmpr"}

\* The tokens of the form f around the name n.
NameForm(f, n) ==
  CASE f = "bare" -> <<n>>
    [] f = "not" -> <<<<"!">>, n>>
    [] f = "paren" -> <<<<"(">>, n, <<")">>>>
    [] f = "left" -> <<n, TokAnd, KwTrue>>
    [] f = "right" -> <<KwTrue, TokAnd, n>>
    [] f = "cmpl" -> <<n, <<"=", "=">>, <<"1">>>>
    [] f = "cmpr" -> <<<<"1">>, <<"=", "=">>, n>>

NameContexts(n) ==
  {EmptyContext, Bind1(n, CtxBoolean(TRUE)), Bind1(n, CtxBoolean(FALSE)),
   Bind1(n, CtxInteger(SmallI64(1)))}

InitName ==
  /\ InitCommon
  /\ \E n \in FamilyNames, f \in BooleanForms \cup OperandForms,
        k \in 0..MaxSpaces :
       /\ given = [fam |-> "name", name |-> n, form |-> f]
       /\ input = Render(NameForm(f, n), k)
       /\ context \in NameContexts(n)

SpecName == InitName /\ [][Next]_vars

(***************************************************************************)
(* Properties.                                                             *)
(***************************************************************************)
SyntaxMessages == {"Parse error", "Expected end of input"}

\* The parser rejected the input: an error of the parser and no tree.
ParseRejected ==
  /\ pc = "done"
  /\ expr = None
  /\ result.tag = "Err"
  /\ result.msg \in SyntaxMessages

\* The names of the Identifier nodes of a tree, operands included.
RECURSIVE IdentsOf(_)
IdentsOf(e) ==
  CASE e.tag = "Identifier" -> {e.name}
    [] e.tag = "Boolean" -> {}
    [] e.tag = "NonBoolean" ->
         {x.name : x \in {y \in {e.nbe.lhs, e.nbe.rhs} : y.tag = "Identifier"}}
    [] e.tag = "Binary" -> IdentsOf(e.lhs) \cup IdentsOf(e.rhs)
    [] e.tag = "Unary" -> IdentsOf(e.rhs)
    [] OTHER -> {}

\* C1: an expression of true, false, !, &&, || and parentheses, with no
\* identifier and no chain that mixes && and ||, evaluates to Ok(b), b its
\* value in boolean algebra with ! applying to the one value after it.
C1_LiteralBooleanAlgebra ==
  (given.fam = "bool" /\ given.lit /\ ~given.mixed /\ pc \in {"done", "aborted"})
    => result = ROk(given.v[TRUE])

\* C1 witness: "! true || true" has been evaluated, to Ok(true).
C1_Witness ==
  /\ input = Render(<< <<"!">>, KwTrue, TokOr, KwTrue >>, 1)
  /\ pc = "done"
  /\ result = ROk(TRUE)

C6_MissingIdentifierNotFound ==
  (pc = "done" /\ expr # None
     /\ \E n \in IdentsOf(expr) : n \notin DOMAIN context)
    => /\ result.tag = "Err"
       /\ result.msg = "Identifier not found in context"
       /\ result.arg \in IdentsOf(expr) \ DOMAIN context

\* C9: the whole input "!  ( !   true)  ", trailing blanks included,
\* evaluates to Ok(true) like "!(!true)".
C9_WhitespaceVariantEvaluates ==
  (input = WsVariant /\ pc = "done") => result = ROk(TRUE)

\* The operand o of a comparison is an identifier that the context binds.
BoundIdent(o) == o.kind = "ident" /\ o.text \in DOMAIN context

\* The operand o stands for an integer: a literal, or an identifier bound
\* to an Integer.
IsInteger(o) ==
  o.kind = "int" \/ (BoundIdent(o) /\ context[o.text].tag = "Integer")

\* The number a one-digit integer operand stands for.
NumberOf(o) ==
  LET x == IF o.kind = "ident" THEN context[o.text].i ELSE o.cv.i
  IN IF x.neg THEN 0 - DigitVal(x.mag[1]) ELSE DigitVal(x.mag[1])

\* C2: between two integer operands (literals, or identifiers bound to
\* integers) the operators <= and >= are parsed and evaluate to the native
\* less-or-equal and greater-or-equal.
C2_LessEqualGreaterEqual ==
  (given.fam = "cmp" /\ pc = "done"
     /\ given.op \in {<<"<", "=">>, <<">", "=">>}
     /\ IsInteger(given.l) /\ IsInteger(given.r))
    => result = ROk(IF given.op = <<"<", "=">>
                    THEN NumberOf(given.l) <= NumberOf(given.r)
                    ELSE NumberOf(given.l) >= NumberOf(given.r))

LiteralKinds == {"int", "float", "str"}

\* C3: with x bound to a string, integer or float v, "x == <literal of v>"
\* evaluates to Ok(true) and "x != <literal of v>" to Ok(false).
C3_RoundTrip ==
  (given.fam = "cmp" /\ pc \in {"done", "aborted"}
     /\ given.op \in {<<"=", "=">>, <<"!", "=">>}
     /\ BoundIdent(given.l)
     /\ given.r.kind \in LiteralKinds
     /\ context[given.l.text].tag = given.r.cv.tag
     /\ context[given.l.text] = given.r.cv)
    => result = ROk(given.op = <<"=", "=">>)

\* C7: a comparison of two literals of different kinds (integer, float,
\* string), or with the boolean literal on either side, is rejected by the
\* whole-input parser, for every operator.
C7_LiteralKindMismatchRejected ==
  (given.fam = "cmp" /\ pc # "start"
     /\ \/ /\ given.l.kind \in LiteralKinds
           /\ given.r.kind \in LiteralKinds
           /\ given.l.kind # given.r.kind
        \/ given.l.kind = "bool"
        \/ given.r.kind = "bool")
    => ParseRejected

\* C7 witness: "1 == 1.0" and its like (integer before float, which leaves
\* the fraction unread) have been rejected.
C7_Witness ==
  /\ given.fam = "cmp"
  /\ given.l.kind = "int"
  /\ given.r.kind = "float"
  /\ ParseRejected
  /\ result.msg = "Expected end of input"

EvaluationMessages ==
  {"Not a Binary String expression", "Not a Binary Integer expression",
   "Invalid binary operator for string", "Invalid binary operator for number",
   "Invalid regex"}

ComparableKinds == {"String", "Integer", "Float"}

\* C8: a comparison of two bound identifiers is Ok only if both values have
\* one kind and it is string, integer or float; every other bound pair
\* parses, binds and then fails at evaluation, for every operator.
C8_NoCoercion ==
  (given.fam = "cmp" /\ pc = "done"
     /\ BoundIdent(given.l) /\ BoundIdent(given.r))
    => \/ /\ context[given.l.text].tag = context[given.r.text].tag
          /\ context[given.l.text].tag \in ComparableKinds
       \/ /\ expr # None
          /\ result.tag = "Err"
          /\ result.msg \in EvaluationMessages

\* C5: an and-chain of comparisons over identifiers bound to values of the
\* matching kind evaluates to the conjunction of the comparisons' native
\* results, =~ being a match anywhere in the left-hand string.
C5_AndChainConjunction ==
  (given.fam = "chain" /\ pc \in {"done", "aborted"})
    => result = ROk(given.expect)

\* C5 witness: "foo =~ 'ba+r' && 2 > length" with foo = "baaaar" and
\* length = 1 has been evaluated, to Ok(true).
C5_Witness ==
  /\ input = Render(ChainTokens(<<CmpRegex, CmpGreater>>), 1)
  /\ context = ChainContext(Baaaar, 1)
  /\ pc = "done"
  /\ result = ROk(TRUE)

\* C10: evaluate never aborts: it ends by returning Ok(bool) or Err(message),
\* also for an integer literal outside the 64-bit signed range.
C10_NeverAborts ==
  /\ pc # "aborted"
  /\ pc = "done" => result.tag \in {"Ok", "Err"}

\* Every name of the joined input is bound, c to a Boolean.
JoinBound ==
  \A n \in given.l.names \cup given.r.names :
    /\ n \in DOMAIN context
    /\ n = NameC => context[n].tag = "Boolean"

\* The side s is a comparison whose own evaluation fails under the context:
\* operands of two kinds, boolean operands, or an operator that the kind
\* does not have.
SideFails(s) ==
  /\ s.kind = "cmp"
  /\ \/ context[NameA].tag # context[NameB].tag
     \/ context[NameA].tag = "Boolean"
     \/ s.op = <<"<">> /\ context[NameA].tag = "String"
     \/ s.op = <<"=", "~">> /\ context[NameA].tag # "String"

\* C11: a Binary And/Or evaluates both operands always: when the evaluation
\* of either operand fails, the whole evaluation fails, whatever the value
\* of the other operand.
C11_BothOperandsEvaluated ==
  (given.fam = "join" /\ pc = "done" /\ JoinBound
     /\ (SideFails(given.l) \/ SideFails(given.r)))
    => result.tag = "Err"

\* The names of the Identifier nodes of a tree in a boolean position.
RECURSIVE BoolIdents(_)
BoolIdents(e) ==
  CASE e.tag = "Identifier" -> {e.name}
    [] e.tag = "Binary" -> BoolIdents(e.lhs) \cup BoolIdents(e.rhs)
    [] e.tag = "Unary" -> BoolIdents(e.rhs)
    [] OTHER -> {}

\* Every identifier of the tree e can be bound: each one is in the context,
\* and each one in a boolean position is bound to a Boolean.
Bindable(e, ctx) ==
  /\ IdentsOf(e) \subseteq DOMAIN ctx
  /\ \A n \in BoolIdents(e) : ctx[n].tag = "Boolean"

\* The tree f has the shape of the tree e, a Boolean where e has an
\* Identifier.
RECURSIVE SameShape(_, _)
SameShape(e, f) ==
  CASE e.tag \in {"Identifier", "Boolean"} -> f.tag = "Boolean"
    [] e.tag = "NonBoolean" -> f.tag = "NonBoolean" /\ f.nbe.op = e.nbe.op
    [] e.tag = "Binary" ->
         /\ f.tag = "Binary"
         /\ f.op = e.op
         /\ SameShape(e.lhs, f.lhs)
         /\ SameShape(e.rhs, f.rhs)
    [] e.tag = "Unary" -> f.tag = "Unary" /\ SameShape(e.rhs, f.rhs)
    [] OTHER -> FALSE

\* C12: binding is all-or-nothing over the whole tree: use_context fails if
\* any identifier of the tree is absent from the context or, in a boolean
\* position, bound to a non-boolean; otherwise it yields a tree of the same
\* shape with no Identifier node, and evaluation never reports "Context
\* should be used before evaluation".
C12_BindingAllOrNothing ==
  /\ [][pc = "parsed" =>
          IF Bindable(expr, context)
          THEN /\ pc' = "bound"
               /\ SameShape(expr, expr')
               /\ IdentsOf(expr') = {}
          ELSE /\ pc' = "done"
               /\ result'.tag = "Err"]_vars
  /\ [](result.tag = "Err" =>
          result.msg # "Context should be used before evaluation")

\* C12 witness: "true || c" without c in the context has failed at binding,
\* although true alone decides the disjunction.
C12_Witness ==
  /\ input = Render(<<KwTrue, TokOr, NameC>>, 1)
  /\ context = EmptyContext
  /\ pc = "done"
  /\ expr # None
  /\ result = RErr("Value should be a boolean", NameC)

\* C13: in a boolean position a name that merely starts with true or false
\* is parsed as an Identifier with its full name and, bound to a Boolean b,
\* the expression evaluates to b (negated under !).
C13_KeywordPrefixIsIdentifier ==
  (given.fam = "name" /\ given.form \in BooleanForms /\ pc # "start")
    => /\ expr # None
       /\ pc = "parsed" => BoolIdents(expr) = {given.name}
       /\ (/\ pc = "done"
           /\ given.name \in DOMAIN context
           /\ context[given.name].tag = "Boolean")
            => result = ROk(IF given.form = "not"
                            THEN ~context[given.name].b
                            ELSE context[given.name].b)

\* The native equality of two context values of one kind: a NaN equals
\* nothing.
NativeEqual(x, y) ==
  IF x.tag = "Float" /\ (x.f.nan \/ y.f.nan) THEN FALSE ELSE x = y

\* The result is the error msg of the evaluation of a comparison.
FailsWith(msg) == result.tag = "Err" /\ result.msg = msg

\* The verdict C14 gives for the operator token op between two identifiers
\* bound to the values x and y of one kind.
LegalityHolds(op, x, y) ==
  /\ (op \in {<<"<">>, <<">">>} /\ x.tag = "String")
       => FailsWith("Invalid binary operator for string")
  /\ (op = <<"=", "~">> /\ x.tag \in {"Integer", "Float"})
       => FailsWith("Invalid binary operator for number")
  /\ (op = <<"=", "=">> /\ x.tag \in ComparableKinds)
       => result = ROk(NativeEqual(x, y))
  /\ (op = <<"!", "=">> /\ x.tag \in ComparableKinds)
       => result = ROk(~NativeEqual(x, y))

\* C14: operator legality follows the bound kind of the operands: < and >
\* between two identifiers bound to strings fail with the invalid-operator-
\* for-string error, =~ between two bound to integers or to floats fails
\* with the invalid-operator-for-number error, and == / != between two
\* bound to one kind (string, integer, float) give the equality result.
C14_LegalityByBoundKind ==
  (given.fam = "cmp" /\ pc \in {"done", "aborted"}
     /\ BoundIdent(given.l) /\ BoundIdent(given.r)
     /\ context[given.l.text].tag = context[given.r.text].tag)
    => LegalityHolds(given.op, context[given.l.text], context[given.r.text])

\* C14 witness: a < b with a and b bound to strings has failed with the
\* invalid-operator-for-string error.
C14_Witness ==
  /\ given.fam = "cmp"
  /\ given.l.text = NameA
  /\ given.r.text = NameB
  /\ given.op = <<"<">>
  /\ BoundIdent(given.l) /\ BoundIdent(given.r)
  /\ context[NameA].tag = "String"
  /\ context[NameB].tag = "String"
  /\ pc = "done"
  /\ expr # None
  /\ FailsWith("Invalid binary operator for string")

====
